---- MODULE Spec2Model ----
(***************************************************************************)
(* Model of firmware/ESP32_MQTT_GPIO_Controller/config.h: the device       *)
(* configuration table of the ESP32 MQTT GPIO controller.                  *)
(*                                                                         *)
(* The header is a set of object-like macros plus one const array.  The    *)
(* model keeps what the C preprocessor and the compiler do with them:      *)
(*   - a macro is replaced by its replacement list at the point of use;    *)
(*     the topic macros expand to TWO adjacent string literals, which      *)
(*     translation phase 6 concatenates;                                   *)
(*   - `const int CONTROL_PINS[NUM_CONTROL_PINS] = {...}` declares an      *)
(*     array of NUM_CONTROL_PINS slots, aggregate-initialised from the     *)
(*     brace list, slots beyond the list being zero-initialised.           *)
(* String literals whose characters matter (the topics) are sequences of   *)
(* one-character strings; the others are plain strings.                    *)
(***************************************************************************)
EXTENDS Integers, Sequences, FiniteSets, TLC

VARIABLES
  cfg,      \* the configuration table of this build (macros + const array)
  view,     \* per consumer: the name and value it retrieved last
  gpio_i,   \* loop index of the GPIO consumer iterating 0..NUM_CONTROL_PINS-1
  visited   \* the pin values the GPIO consumer has read, in order

vars == <<cfg, view, gpio_i, visited>>

(***************************************************************************)
(* Bounds of the model (not program constants).                            *)
(***************************************************************************)
MaxPrefixLen == 4

\* characters the bounded topic prefixes are built from
PrefixChars == {"/", "s"}

(***************************************************************************)
(* config.h, lines 9-20: WiFi and MQTT session parameters.                 *)
(***************************************************************************)
WIFI_SSID == "<your_wifi_ssid>"

WIFI_PASSWORD == "<your_wifi_password>"

WIFI_TIMEOUT == 20000

MQTT_BROKER == "<your_mqtt_broker>"

\* faulty variant: the plain-text MQTT port is configured instead of the TLS one
MQTT_PORT_plain == 8883 - 7000

MQTT_PORT == 8883

MQTT_CLIENT_ID == "ESP32_GPIO_Controller"

MQTT_USERNAME == "<your_mqtt_username>"

MQTT_PASSWORD == "<your_mqtt_password>"

MQTT_RECONNECT_DELAY == 5000

(***************************************************************************)
(* config.h, lines 36-40: topics.  A topic macro's replacement list is the *)
(* prefix macro followed by a suffix literal; after rescanning, the two    *)
(* adjacent string literals are concatenated (translation phase 6).        *)
(***************************************************************************)
RECURSIVE ConcatLiterals(_)
ConcatLiterals(tokens) ==
  IF tokens = <<>> THEN <<>>
  ELSE Head(tokens) \o ConcatLiterals(Tail(tokens))

MQTT_TOPIC_PREFIX == <<"e","s","p","3","2","/","g","p","i","o">>

\* faulty variant: the separator is left out of the suffix literal
MQTT_TOPIC_CONTROL_noslash(pfx) ==
  ConcatLiterals(<<pfx, <<"c","o","n","t","r","o","l">>>>)

MQTT_TOPIC_CONTROL(pfx) ==
  ConcatLiterals(<<pfx, <<"/","c","o","n","t","r","o","l">>>>)

\* faulty variant: the topic is spelled out as one literal instead of using the prefix
MQTT_TOPIC_STATUS_literal(pfx) ==
  ConcatLiterals(<< <<"e","s","p","3","2","/","g","p","i","o","/","s","t","a","t","u","s">> >>)

MQTT_TOPIC_STATUS(pfx) ==
  ConcatLiterals(<<pfx, <<"/","s","t","a","t","u","s">>>>)

\* faulty variant: the suffix is copied from the status line above
MQTT_TOPIC_TELEMETRY_copied(pfx) ==
  ConcatLiterals(<<pfx, <<"/","s","t","a","t","u","s">>>>)

MQTT_TOPIC_TELEMETRY(pfx) ==
  ConcatLiterals(<<pfx, <<"/","t","e","l","e","m","e","t","r","y">>>>)

(***************************************************************************)
(* config.h, lines 42-51: the control pins.                                *)
(***************************************************************************)
\* faulty variant: the count is raised without extending the brace list
NUM_CONTROL_PINS_raised == 4 + 1

NUM_CONTROL_PINS == 4

\* faulty variant: a pin is listed twice
CONTROL_PINS_list_dup == <<5, 15, 15, 18>>

\* the brace-enclosed initializer list, as written
CONTROL_PINS_list == <<5, 15, 17, 18>>

\* T a[n] = {list}: n slots indexed from 0; slot i takes the i-th initializer,
\* a slot without one is zero-initialised.  (A list longer than n is
\* ill-formed and gives no program.)
ArrayInit(n, list) ==
  [i \in 0..(n - 1) |-> IF i < Len(list) THEN list[i + 1] ELSE 0]

CONTROL_PINS == ArrayInit(NUM_CONTROL_PINS, CONTROL_PINS_list)

(***************************************************************************)
(* config.h, lines 53-59: sensor and debug settings.                       *)
(***************************************************************************)
\* faulty variant: the sensor is wired to the first control pin
DHT_SENSOR_PIN_shared == CONTROL_PINS_list[1]

DHT_SENSOR_PIN == 4

DHT_SENSOR_TYPE == "DHT22"

DEBUG_ENABLED == TRUE

SERIAL_BAUD_RATE == 115200

(***************************************************************************)
(* The table a build of the header with topic prefix pfx holds.  The three *)
(* topics are not fields: they are expanded from the prefix on retrieval.  *)
(***************************************************************************)
ConfigTable(pfx) ==
  [ WIFI_SSID            |-> WIFI_SSID,
    WIFI_PASSWORD        |-> WIFI_PASSWORD,
    WIFI_TIMEOUT         |-> WIFI_TIMEOUT,
    MQTT_BROKER          |-> MQTT_BROKER,
    MQTT_PORT            |-> MQTT_PORT,
    MQTT_CLIENT_ID       |-> MQTT_CLIENT_ID,
    MQTT_USERNAME        |-> MQTT_USERNAME,
    MQTT_PASSWORD        |-> MQTT_PASSWORD,
    MQTT_RECONNECT_DELAY |-> MQTT_RECONNECT_DELAY,
    MQTT_TOPIC_PREFIX    |-> pfx,
    NUM_CONTROL_PINS     |-> NUM_CONTROL_PINS,
    CONTROL_PINS         |-> CONTROL_PINS,
    DHT_SENSOR_PIN       |-> DHT_SENSOR_PIN,
    DHT_SENSOR_TYPE      |-> DHT_SENSOR_TYPE,
    DEBUG_ENABLED        |-> DEBUG_ENABLED,
    SERIAL_BAUD_RATE     |-> SERIAL_BAUD_RATE ]

TopicNames == {"MQTT_TOPIC_CONTROL", "MQTT_TOPIC_STATUS", "MQTT_TOPIC_TELEMETRY"}

\* Value retrieval: the value the use of a name yields in table t.
Retrieve(t, name) ==
  CASE name = "MQTT_TOPIC_CONTROL"   -> MQTT_TOPIC_CONTROL(t.MQTT_TOPIC_PREFIX)
    [] name = "MQTT_TOPIC_STATUS"    -> MQTT_TOPIC_STATUS(t.MQTT_TOPIC_PREFIX)
    [] name = "MQTT_TOPIC_TELEMETRY" -> MQTT_TOPIC_TELEMETRY(t.MQTT_TOPIC_PREFIX)
    [] OTHER                         -> t[name]

\* faulty variant: the array is not const and the reader clears the slot it read
AfterRead_clearing(t, name, i) ==
  IF name = "CONTROL_PINS" THEN [t EXCEPT !.CONTROL_PINS[i] = 0] ELSE t

\* The table after `name` (slot i, for the array) was read: a macro use is a
\* textual substitution and CONTROL_PINS is const, so a read stores nothing.
AfterRead(t, name, i) == t

(***************************************************************************)
(* The consumers of the table and the names each one reads.                *)
(***************************************************************************)
Consumers == {"wifi", "mqtt", "gpio", "sensor", "diag"}

WiFiFields == {"WIFI_SSID", "WIFI_PASSWORD", "WIFI_TIMEOUT"}

MQTTFields ==
  {"MQTT_BROKER", "MQTT_PORT", "MQTT_CLIENT_ID", "MQTT_USERNAME",
   "MQTT_PASSWORD", "MQTT_RECONNECT_DELAY"} \cup TopicNames

SensorFields == {"DHT_SENSOR_PIN", "DHT_SENSOR_TYPE"}

DiagFields == {"DEBUG_ENABLED", "SERIAL_BAUD_RATE"}

NothingRead == [name |-> "none", value |-> 0]

\* consumer c retrieves `name`; the GPIO loop is left alone
Read(c, name) ==
  /\ view' = [view EXCEPT ![c] = [name |-> name, value |-> Retrieve(cfg, name)]]
  /\ cfg' = AfterRead(cfg, name, 0)
  /\ UNCHANGED <<gpio_i, visited>>

WiFiRead == \E name \in WiFiFields : Read("wifi", name)

MQTTRead == \E name \in MQTTFields : Read("mqtt", name)

SensorRead == \E name \in SensorFields : Read("sensor", name)

DiagRead == \E name \in DiagFields : Read("diag", name)

\* for (i = 0; i < NUM_CONTROL_PINS; i++) use(CONTROL_PINS[i]);
GPIOStep ==
  /\ gpio_i < Retrieve(cfg, "NUM_CONTROL_PINS")
  /\ view' = [view EXCEPT !["gpio"] =
                [name |-> "CONTROL_PINS", value |-> Retrieve(cfg, "CONTROL_PINS")[gpio_i]]]
  /\ visited' = Append(visited, Retrieve(cfg, "CONTROL_PINS")[gpio_i])
  /\ gpio_i' = gpio_i + 1
  /\ cfg' = AfterRead(cfg, "CONTROL_PINS", gpio_i)

Next == WiFiRead \/ MQTTRead \/ SensorRead \/ DiagRead \/ GPIOStep

ConsumersInit ==
  /\ view = [c \in Consumers |-> NothingRead]
  /\ gpio_i = 0
  /\ visited = <<>>

\* the shipped build
Init ==
  /\ cfg = ConfigTable(MQTT_TOPIC_PREFIX)
  /\ ConsumersInit

Spec == Init /\ [][Next]_vars

\* every string over PrefixChars of at most MaxPrefixLen characters, and the
\* shipped prefix
Prefixes ==
  UNION {[1..n -> PrefixChars] : n \in 0..MaxPrefixLen} \cup {MQTT_TOPIC_PREFIX}

\* a build of the header with line 37 edited to any prefix
InitPrefix ==
  /\ cfg \in {ConfigTable(p) : p \in Prefixes}
  /\ ConsumersInit

SpecPrefix == InitPrefix /\ [][Next]_vars

(***************************************************************************)
(* Helpers of the properties.                                              *)
(***************************************************************************)
StartsWith(s, p) == Len(s) >= Len(p) /\ \A k \in 1..Len(p) : s[k] = p[k]

\* s without its first n characters
DropFirst(s, n) == [k \in 1..(Len(s) - n) |-> s[k + n]]

Control(t) == Retrieve(t, "MQTT_TOPIC_CONTROL")

Status(t) == Retrieve(t, "MQTT_TOPIC_STATUS")

Telemetry(t) == Retrieve(t, "MQTT_TOPIC_TELEMETRY")

\* the slots of the array, in index order
PinsOf(t) == [k \in 1..t.NUM_CONTROL_PINS |-> t.CONTROL_PINS[k - 1]]

LoopDone == gpio_i = cfg.NUM_CONTROL_PINS

\* C1: for every topic prefix, each topic is the prefix followed by exactly
\* its suffix ("/control", "/status", "/telemetry"), the MQTT consumer
\* retrieves exactly that string, and a build with another prefix differs in
\* all three topics.
C1_TopicsDerivedFromPrefix ==
  LET p == cfg.MQTT_TOPIC_PREFIX IN
  /\ StartsWith(Control(cfg), p)
  /\ DropFirst(Control(cfg), Len(p)) = <<"/","c","o","n","t","r","o","l">>
  /\ StartsWith(Status(cfg), p)
  /\ DropFirst(Status(cfg), Len(p)) = <<"/","s","t","a","t","u","s">>
  /\ StartsWith(Telemetry(cfg), p)
  /\ DropFirst(Telemetry(cfg), Len(p)) = <<"/","t","e","l","e","m","e","t","r","y">>
  /\ view["mqtt"].name \in TopicNames =>
       /\ StartsWith(view["mqtt"].value, p)
       /\ view["mqtt"].value = Retrieve(cfg, view["mqtt"].name)
  /\ \A q \in Prefixes : q # p =>
       /\ Control(ConfigTable(q)) # Control(cfg)
       /\ Status(ConfigTable(q)) # Status(cfg)
       /\ Telemetry(ConfigTable(q)) # Telemetry(cfg)

\* the MQTT consumer retrieved the status topic of a build whose prefix is
\* not the shipped one
C1_Witness ==
  /\ view["mqtt"].name = "MQTT_TOPIC_STATUS"
  /\ cfg.MQTT_TOPIC_PREFIX # MQTT_TOPIC_PREFIX
  /\ Len(cfg.MQTT_TOPIC_PREFIX) >= 2

\* C2: in the shipped build the prefix is "esp32/gpio" and the topics are
\* "esp32/gpio/control", "esp32/gpio/status" and "esp32/gpio/telemetry".
C2_ShippedTopics ==
  /\ cfg.MQTT_TOPIC_PREFIX = <<"e","s","p","3","2","/","g","p","i","o">>
  /\ Control(cfg) =
       <<"e","s","p","3","2","/","g","p","i","o","/","c","o","n","t","r","o","l">>
  /\ Status(cfg) =
       <<"e","s","p","3","2","/","g","p","i","o","/","s","t","a","t","u","s">>
  /\ Telemetry(cfg) =
       <<"e","s","p","3","2","/","g","p","i","o","/","t","e","l","e","m","e","t","r","y">>
  /\ view["mqtt"].name = "MQTT_TOPIC_CONTROL" => Len(view["mqtt"].value) = 18
  /\ view["mqtt"].name = "MQTT_TOPIC_STATUS" => Len(view["mqtt"].value) = 17
  /\ view["mqtt"].name = "MQTT_TOPIC_TELEMETRY" => Len(view["mqtt"].value) = 20

\* the MQTT consumer retrieved the control topic of the shipped build
C2_Witness ==
  /\ view["mqtt"].name = "MQTT_TOPIC_CONTROL"
  /\ view["mqtt"].value[11] = "/"

\* C3: NUM_CONTROL_PINS equals the number of pins listed in CONTROL_PINS, so
\* the loop over 0..NUM_CONTROL_PINS-1 reads only slots that were given a pin
\* and, once done, has visited every listed pin exactly once, in order.
C3_CountEqualsListLength ==
  /\ cfg.NUM_CONTROL_PINS = Len(CONTROL_PINS_list)
  /\ DOMAIN cfg.CONTROL_PINS = 0..(Len(CONTROL_PINS_list) - 1)
  /\ Len(visited) = gpio_i
  /\ gpio_i <= Len(CONTROL_PINS_list)
  /\ \A k \in 1..Len(visited) : visited[k] = CONTROL_PINS_list[k]
  /\ LoopDone => visited = CONTROL_PINS_list

\* the GPIO loop has run to its end
C3_Witness == LoopDone /\ Len(visited) = cfg.NUM_CONTROL_PINS

\* C4: in the shipped build the control pins are 5, 15, 17, 18 in that order,
\* the count is 4, and every entry is non-negative and occurs once.
C4_ShippedPins ==
  /\ PinsOf(cfg) = <<5, 15, 17, 18>>
  /\ cfg.NUM_CONTROL_PINS = 4
  /\ \A k \in DOMAIN cfg.CONTROL_PINS : cfg.CONTROL_PINS[k] >= 0
  /\ \A j, k \in DOMAIN cfg.CONTROL_PINS :
       j # k => cfg.CONTROL_PINS[j] # cfg.CONTROL_PINS[k]
  /\ \A j, k \in 1..Len(visited) : j # k => visited[j] # visited[k]

\* the GPIO loop has read all four pins
C4_Witness == gpio_i = 4 /\ visited = <<5, 15, 17, 18>>

\* C5: the broker port is within 1..65535, the reconnect delay and the WiFi
\* timeout are strictly positive, and the shipped values are 8883, 5000 and
\* 20000; the consumers retrieve these values.
C5_PortAndDelays ==
  /\ cfg.MQTT_PORT \in 1..65535
  /\ cfg.MQTT_RECONNECT_DELAY > 0
  /\ cfg.WIFI_TIMEOUT > 0
  /\ cfg.MQTT_PORT = 8883
  /\ cfg.MQTT_RECONNECT_DELAY = 5000
  /\ cfg.WIFI_TIMEOUT = 20000
  /\ view["mqtt"].name = "MQTT_PORT" => view["mqtt"].value = 8883
  /\ view["mqtt"].name = "MQTT_RECONNECT_DELAY" => view["mqtt"].value = 5000
  /\ view["wifi"].name = "WIFI_TIMEOUT" => view["wifi"].value = 20000

\* the MQTT consumer retrieved the port and the WiFi consumer the timeout
C5_Witness ==
  /\ view["mqtt"].name = "MQTT_PORT"
  /\ view["wifi"].name = "WIFI_TIMEOUT"

\* C6: the table is read-only: whatever the consumers have read, every field,
\* every slot of the control-pin array included, holds its initial value.
C6_TableNeverChanges ==
  /\ cfg = ConfigTable(MQTT_TOPIC_PREFIX)
  /\ \A k \in 0..(NUM_CONTROL_PINS - 1) : cfg.CONTROL_PINS[k] = CONTROL_PINS[k]

\* every consumer has read from the table and the GPIO loop has finished
C6_Witness ==
  /\ \A c \in Consumers : view[c].name # "none"
  /\ LoopDone

\* C7: the sensor pin is none of the control pins.
C7_SensorPinNotControlPin ==
  /\ \A k \in DOMAIN cfg.CONTROL_PINS : cfg.CONTROL_PINS[k] # cfg.DHT_SENSOR_PIN
  /\ view["sensor"].name = "DHT_SENSOR_PIN" =>
       \A k \in 1..Len(visited) : visited[k] # view["sensor"].value

\* the sensor consumer read its pin and the GPIO loop read every control pin
C7_Witness ==
  /\ view["sensor"].name = "DHT_SENSOR_PIN"
  /\ Len(visited) = NUM_CONTROL_PINS

\* C9: for every topic prefix the three topics are pairwise distinct; the
\* subscribed topic (control) equals no published topic (status, telemetry).
C9_TopicsPairwiseDistinct ==
  /\ Control(cfg) # Status(cfg)
  /\ Control(cfg) # Telemetry(cfg)
  /\ Status(cfg) # Telemetry(cfg)
  /\ view["mqtt"].name \in {"MQTT_TOPIC_STATUS", "MQTT_TOPIC_TELEMETRY"} =>
       view["mqtt"].value # Control(cfg)

\* the MQTT consumer retrieved the telemetry topic of a build whose prefix
\* ends in the separator
C9_Witness ==
  /\ view["mqtt"].name = "MQTT_TOPIC_TELEMETRY"
  /\ Len(cfg.MQTT_TOPIC_PREFIX) >= 1
  /\ cfg.MQTT_TOPIC_PREFIX[Len(cfg.MQTT_TOPIC_PREFIX)] = "/"

====
